---------------------------- MODULE Spec2Model ----------------------------
(***************************************************************************)
(* A model of three scripts of bedrock-examples:                           *)
(*                                                                         *)
(*   bedrock_nova_reel_text2video.py      submit an asynchronous video job *)
(*                                        and poll it until it is terminal *)
(*                                        (specification Spec, FairSpec)   *)
(*   bedrock_nova_image_bg_remove.py      parse_s3_url and the two storage *)
(*                                        helpers (specification SpecUrl), *)
(*                                        main's pipeline (SpecImage)      *)
(*   bedrock_nova_image_bg_change_prompt.py  change_background (SpecImage) *)
(*                                                                         *)
(* Strings the code takes apart (locators, job handles) are sequences of   *)
(* one-character strings (locators) or of tokens with "/" a token of its   *)
(* own (job handles).  Whitespace and control characters are outside the   *)
(* locator alphabet.                                                       *)
(***************************************************************************)
EXTENDS Integers, Sequences, FiniteSets, TLC

VARIABLES
    script,          \* which program runs: "video", "s3call", "bg_remove", "bg_change"
    pc,              \* the position of the running program
    invocation_arn,  \* text2video: invocation["invocationArn"]
    s3_location,     \* text2video: the derived output location
    status,          \* text2video: the script's variable status
    remote,          \* text2video: the job status held by the remote side
    polls,           \* text2video: get_async_invoke calls made
    sleeps,          \* text2video: time.sleep calls made
    elapsed,         \* text2video: seconds slept in total
    events,          \* text2video: the polls' answers and the sleeps, in order
    output,          \* what the program printed or logged, in order
    input_s3_url,    \* image scripts: the input locator (bg_change: image_path)
    output_s3_url,   \* image scripts: the output locator (bg_change: output_file)
    response,        \* image scripts: the answer of invoke_model
    exc,             \* image scripts: the exception that ended the run, or NoExc
    exit_code,       \* image scripts: the process exit code, Running before
    image_bytes,     \* image scripts: the decoded output of the model
    invokes,         \* image scripts: invoke_model calls made
    s3_calls,        \* image scripts: storage requests issued, in order
    written          \* image scripts: whether the output artifact was written

vars == <<script, pc, invocation_arn, s3_location, status, remote, polls, sleeps,
          elapsed, events, output, input_s3_url, output_s3_url, response, exc,
          exit_code, image_bytes, invokes, s3_calls, written>>

videoVars == <<invocation_arn, s3_location, status, remote, polls, sleeps,
               elapsed, events>>

imageVars == <<input_s3_url, output_s3_url, response, exc, exit_code, image_bytes,
               invokes, s3_calls, written>>

-----------------------------------------------------------------------------
(* Bounds *)

\* the largest number of InProgress answers a run of the model receives
MaxPolls == 4

-----------------------------------------------------------------------------
(* bedrock_nova_reel_text2video.py *)

SLEEP_TIME == 30

\* f"s3://{S3_DESTINATION_BUCKET}/videos/", as tokens
OutputPrefix == <<"s3:", "/", "/", "YOUR-S3-BUCKET-NAME", "/", "videos", "/">>

\* the job handles the remote side may return
Arns ==
    { <<"arn:aws:bedrock:us-east-1:111122223333:async-invoke", "/", "j1">>,
      <<"arn:aws:bedrock:us-east-1:111122223333:async-invoke", "/", "j2">>,
      <<"arn", "/", "async-invoke", "/", "j3">>,
      <<"j4">>,
      <<"arn", "/", "j5", "/">>,
      <<"/", "j6">> }

Unset == "unset"
NoArn == <<>>

Terminal == {"Completed", "Failed"}

\* str.split('/')[-1]: the tokens after the last "/" token (all of them when
\* there is none)
RECURSIVE SplitLast(_)
SplitLast(s) ==
    IF s = <<>> THEN <<>>
    ELSE IF s[Len(s)] = "/" THEN <<>>
    ELSE Append(SplitLast(SubSeq(s, 1, Len(s) - 1)), s[Len(s)])

\* the location with the whole handle appended, not its last segment
S3Location_WholeHandle(arn) == OutputPrefix \o arn

\* s3_location = f"s3://{S3_DESTINATION_BUCKET}/videos/{s3_prefix}"
S3Location(arn) == OutputPrefix \o SplitLast(arn)

InitVideo ==
    /\ script = "video"
    /\ pc = "submit"
    /\ invocation_arn = NoArn
    /\ s3_location = <<>>
    /\ status = Unset
    /\ remote = Unset
    /\ polls = 0
    /\ sleeps = 0
    /\ elapsed = 0
    /\ events = <<>>
    /\ output = <<>>

\* start_async_invoke answers with a handle; the script derives s3_location
Submit ==
    /\ script = "video"
    /\ pc = "submit"
    /\ \E arn \in Arns :
          /\ invocation_arn' = arn
          /\ s3_location' = S3Location(arn)
          /\ output' = Append(output, <<"S3 URI", S3Location(arn)>>)
    /\ remote' = "InProgress"
    /\ pc' = "poll"
    /\ UNCHANGED <<script, status, polls, sleeps, elapsed, events>>
    /\ UNCHANGED imageVars

\* start_async_invoke raises: the script ends with the uncaught exception
SubmitFails ==
    /\ script = "video"
    /\ pc = "submit"
    /\ pc' = "crashed"
    /\ UNCHANGED <<script, output>>
    /\ UNCHANGED videoVars
    /\ UNCHANGED imageVars

\* the remote job ends, on its own schedule
RemoteFinish ==
    /\ script = "video"
    /\ remote = "InProgress"
    /\ \E s \in Terminal : remote' = s
    /\ UNCHANGED <<script, pc, invocation_arn, s3_location, status, polls, sleeps,
                   elapsed, events, output>>
    /\ UNCHANGED imageVars

\* a loop that leaves on Completed only
AfterPoll_OnlyCompleted(st) == IF st = "Completed" THEN "report" ELSE "sleep"

\* where the loop goes after a poll that answered st
AfterPoll(st) == IF st # "InProgress" THEN "report" ELSE "sleep"

\* one iteration of `while True` up to the break or the sleep: the status
\* query answers
Poll ==
    /\ script = "video"
    /\ pc = "poll"
    /\ remote = "InProgress" => polls < MaxPolls
    /\ status' = remote
    /\ polls' = polls + 1
    /\ events' = Append(events, remote)
    /\ output' = Append(output, <<"Status", remote>>)
    /\ pc' = AfterPoll(remote)
    /\ UNCHANGED <<script, invocation_arn, s3_location, remote, sleeps, elapsed>>
    /\ UNCHANGED imageVars

\* a failed status query taken for a failed job
PollFails_SetsFailed ==
    /\ script = "video"
    /\ pc = "poll"
    /\ polls' = polls + 1
    /\ events' = Append(events, "error")
    /\ status' = "Failed"
    /\ pc' = "report"
    /\ UNCHANGED <<script, invocation_arn, s3_location, remote, sleeps, elapsed, output>>
    /\ UNCHANGED imageVars

\* the status query raises: nothing catches it, the script ends
PollFails ==
    /\ script = "video"
    /\ pc = "poll"
    /\ polls' = polls + 1
    /\ events' = Append(events, "error")
    /\ pc' = "crashed"
    /\ UNCHANGED <<script, invocation_arn, s3_location, status, remote, sleeps,
                   elapsed, output>>
    /\ UNCHANGED imageVars

\* a wait that gives up after its second sleep
Sleep_AttemptCap ==
    /\ script = "video"
    /\ pc = "sleep"
    /\ sleeps' = sleeps + 1
    /\ elapsed' = elapsed + SLEEP_TIME
    /\ events' = Append(events, "sleep")
    /\ pc' = IF sleeps >= 1 THEN "report" ELSE "poll"
    /\ UNCHANGED <<script, invocation_arn, s3_location, status, remote, polls, output>>
    /\ UNCHANGED imageVars

\* time.sleep(SLEEP_TIME)
Sleep ==
    /\ script = "video"
    /\ pc = "sleep"
    /\ sleeps' = sleeps + 1
    /\ elapsed' = elapsed + SLEEP_TIME
    /\ events' = Append(events, "sleep")
    /\ pc' = "poll"
    /\ UNCHANGED <<script, invocation_arn, s3_location, status, remote, polls, output>>
    /\ UNCHANGED imageVars

\* the final message
ReportLine(st, loc) ==
    IF st = "Completed" THEN <<"Video is ready at", loc \o <<"/", "output.mp4">> >>
    ELSE <<"Video generation status", st>>

Report ==
    /\ script = "video"
    /\ pc = "report"
    /\ output' = Append(output, ReportLine(status, s3_location))
    /\ pc' = "done"
    /\ UNCHANGED <<script>>
    /\ UNCHANGED videoVars
    /\ UNCHANGED imageVars

Running == -1
NoExc == [type |-> "none", msg |-> "", detail |-> "", raised_in |-> ""]
NoResponse == [transport |-> "none", images |-> "none", error |-> "none"]

NoImageState ==
    /\ input_s3_url = <<>>
    /\ output_s3_url = <<>>
    /\ response = NoResponse
    /\ exc = NoExc
    /\ exit_code = Running
    /\ image_bytes = "none"
    /\ invokes = 0
    /\ s3_calls = <<>>
    /\ written = FALSE

Init == InitVideo /\ NoImageState

Next ==
    \/ Submit
    \/ SubmitFails
    \/ RemoteFinish
    \/ Poll
    \/ PollFails
    \/ Sleep
    \/ Report

Spec == Init /\ [][Next]_vars

\* the script keeps running, and the remote job ends at some time; nothing
\* forces a request to fail
FairSpec ==
    /\ Init
    /\ [][Next]_vars
    /\ WF_vars(Submit)
    /\ WF_vars(RemoteFinish)
    /\ WF_vars(Poll)
    /\ WF_vars(Sleep)
    /\ WF_vars(Report)

-----------------------------------------------------------------------------
(* bedrock_nova_image_bg_remove.py: parse_s3_url *)

Letters == {"s", "S", "b", "k", "h"}
Digits == {"3"}

\* urllib.parse.scheme_chars
SchemeChars == Letters \cup Digits \cup {"+", "-", "."}

\* str.lower, on one character
Lower(c) == IF c = "S" THEN "s" ELSE c

\* str.find for a set of characters: the first index of one of them, 0 for none
Find(s, C) ==
    LET hits == {i \in 1..Len(s) : s[i] \in C}
    IN  IF hits = {} THEN 0 ELSE CHOOSE i \in hits : \A j \in hits : i <= j

From(s, i) == SubSeq(s, i, Len(s))

\* urlsplit's scheme step: <<scheme, rest>>; the text before the first ":" is
\* the scheme when it starts with a letter and holds scheme characters only
SplitScheme(url) ==
    LET i == Find(url, {":"})
    IN  IF i > 1 /\ url[1] \in Letters /\ \A j \in 1..(i - 1) : url[j] \in SchemeChars
        THEN <<[j \in 1..(i - 1) |-> Lower(url[j])], From(url, i + 1)>>
        ELSE <<<<>>, url>>

\* urlsplit's netloc step (_splitnetloc): <<netloc, rest>>; after a leading
\* "//" the netloc runs up to the first of "/?#"
SplitNetloc(url) ==
    LET delim == Find(From(url, 3), {"/", "?", "#"})
    IN  IF ~(Len(url) >= 2 /\ url[1] = "/" /\ url[2] = "/") THEN <<<<>>, url>>
        ELSE IF delim = 0 THEN <<From(url, 3), <<>> >>
        ELSE <<SubSeq(url, 3, delim + 1), From(url, delim + 2)>>

\* str.split(c, 1): <<before, after>> the first c (after is empty without one)
SplitAt(s, c) ==
    LET i == Find(s, {c})
    IN  IF i = 0 THEN <<s, <<>> >> ELSE <<SubSeq(s, 1, i - 1), From(s, i + 1)>>

\* urllib.parse.urlparse: scheme, netloc, then the fragment after the first
\* "#", the query after the first "?", and the path
urlparse(url) ==
    LET a == SplitScheme(url)
        b == SplitNetloc(a[2])
        c == SplitAt(b[2], "#")
        d == SplitAt(c[1], "?")
    IN  [scheme |-> a[1], netloc |-> b[1], path |-> d[1], query |-> d[2],
         fragment |-> c[2]]

\* str.lstrip('/')
RECURSIVE lstrip(_)
lstrip(s) == IF s # <<>> /\ s[1] = "/" THEN lstrip(Tail(s)) ELSE s

\* a parse_s3_url that requires the bucket only
parse_s3_url_BucketOnly(s3_url) ==
    LET parsed_url == urlparse(s3_url)
        bucket == parsed_url.netloc
        key == lstrip(parsed_url.path)
    IN  IF parsed_url.scheme # <<"s", "3">>
        THEN [ok |-> FALSE, error |-> "Invalid S3 URL scheme"]
        ELSE IF bucket = <<>>
        THEN [ok |-> FALSE, error |-> "Invalid S3 URL format"]
        ELSE [ok |-> TRUE, bucket |-> bucket, key |-> key]

\* parse_s3_url: (bucket, key), or the ValueError it raises
parse_s3_url(s3_url) ==
    LET parsed_url == urlparse(s3_url)
        bucket == parsed_url.netloc
        key == lstrip(parsed_url.path)
    IN  IF parsed_url.scheme # <<"s", "3">>
        THEN [ok |-> FALSE, error |-> "Invalid S3 URL scheme"]
        ELSE IF bucket = <<>> \/ key = <<>>
        THEN [ok |-> FALSE, error |-> "Invalid S3 URL format"]
        ELSE [ok |-> TRUE, bucket |-> bucket, key |-> key]

\* the locators a run may be given: a scheme part, separators, a container
\* part and a key part
UrlSchemes == { <<>>, <<"s", "3", ":">>, <<"S", "3", ":">>, <<"h", ":">>,
                <<"s", "3">>, <<":">>, <<"3", "s", ":">>, <<"s", "+", "3", ":">> }
UrlSlashes == { <<>>, <<"/">>, <<"/", "/">> }
UrlBuckets == { <<>>, <<"b">> }
UrlKeys == { <<>>, <<"/">>, <<"/", "/">>, <<"/", "k">>, <<"/", "/", "k">>,
             <<"/", "k", "/", "k">>, <<"/", "k", "/">>, <<"/", "k", "?", "k">>,
             <<"/", "k", "#", "k">>, <<"/", "?", "k">>, <<"/", "#", "k">>,
             <<"?", "k">>, <<"#", "k">>, <<"/", "k", "?", "k", "#", "k">> }
Urls == { a \o b \o c \o d : a \in UrlSchemes, b \in UrlSlashes, c \in UrlBuckets,
                             d \in UrlKeys }

\* s3://b/k
GoodUrl == <<"s", "3", ":", "/", "/", "b", "/", "k">>

-----------------------------------------------------------------------------
(* bedrock_nova_image_bg_remove.py: main and its helpers *)

Exc(type, msg, detail, where) ==
    [type |-> type, msg |-> msg, detail |-> detail, raised_in |-> where]

\* the message a failing remote call carries (str(err), err.response Message)
UnderlyingDetail == "underlying detail"

\* how invoke_model ends: it answers, or the try block raises
Transports == {"ok", "NoClient", "AccessDeniedException", "ClientError", "KeyError",
               "Exception"}

\* response_body.get("images"): no such key, [], "", [""], a string base64
\* rejects, base64 of bytes that are no image, base64 of an image
ImageFields == {"absent", "emptylist", "emptystring", "emptyfirst", "badpadding",
                "notimage", "valid"}

\* response_body.get("error")
ErrorFields == {"null", "some policy violation"}

Responses ==
    { [transport |-> "ok", images |-> i, error |-> e] : i \in ImageFields,
                                                         e \in ErrorFields }
    \cup { [transport |-> t, images |-> "none", error |-> "none"] :
              t \in Transports \ {"ok"} }

\* base64.b64decode(images[0]) of a non-empty first element
Decoded(images) == IF images = "valid" THEN "image" ELSE "notimage"

\* what the storage service answers to get_object / upload_fileobj
GetOutcomes == {"ok", "NoSuchKey", "AccessDenied", "ClientError", "Exception"}
PutOutcomes == {"ok", "AccessDenied", "ClientError", "Exception"}

Raise(e) == [exc |-> e, value |-> "none"]
Return(v) == [exc |-> NoExc, value |-> v]

\* remove_background, after invoke_model ended as resp says
remove_background(resp) ==
    LET here == "remove_background"
        t == resp.transport
    IN  IF t = "NoClient"
        THEN Raise(Exc("ImageError", "Failed to create Bedrock client",
                       UnderlyingDetail, here))
        ELSE IF t = "AccessDeniedException"
        THEN Raise(Exc("ImageError",
                       "Access denied to Bedrock model. Check your AWS permissions.",
                       "", here))
        ELSE IF t = "ClientError"
        THEN Raise(Exc("ImageError", "Bedrock API error", UnderlyingDetail, here))
        ELSE IF t = "KeyError"
        THEN Raise(Exc("ImageError", "Malformed API response from Bedrock service.",
                       "", here))
        ELSE IF t = "Exception"
        THEN Raise(Exc("ImageError", "Error invoking Bedrock model",
                       UnderlyingDetail, here))
        ELSE IF resp.images = "absent"
        THEN Raise(Exc("TypeError", "'NoneType' object is not subscriptable", "",
                       here))
        ELSE IF resp.images \in {"emptylist", "emptystring"}
        THEN Raise(Exc("ImageError", "Error parsing Bedrock response",
                       "index out of range", here))
        ELSE IF resp.images = "emptyfirst"
        THEN Raise(Exc("ImageError", "No processed image returned in the response.",
                       "", here))
        ELSE IF resp.images = "badpadding"
        THEN Raise(Exc("binascii.Error", "Incorrect padding", "", here))
        ELSE IF resp.error # "null"
        THEN Raise(Exc("ImageError", "Background removal error. Error is",
                       resp.error, here))
        ELSE Return(Decoded(resp.images))

\* read_image_from_s3: the request it issues (if any) and how it ends, the
\* storage service answering r
read_image_from_s3(url, r) ==
    LET here == "read_image_from_s3"
        p == parse_s3_url(url)
        call == [op |-> "get_object", Bucket |-> p.bucket, Key |-> p.key]
    IN  IF ~p.ok
        THEN [calls |-> <<>>,
              exc |-> Exc("ImageError", "Error reading image from S3", p.error, here)]
        ELSE [calls |-> <<call>>,
              exc |-> IF r = "ok" THEN NoExc
                      ELSE IF r = "NoSuchKey"
                      THEN Exc("ImageError", "Image not found at", "", here)
                      ELSE IF r = "AccessDenied"
                      THEN Exc("ImageError", "Access denied to image at", "", here)
                      ELSE IF r = "ClientError"
                      THEN Exc("ImageError", "S3 error", UnderlyingDetail, here)
                      ELSE Exc("ImageError", "Error reading image from S3",
                               UnderlyingDetail, here)]

\* save_image_to_s3 of the bytes b: the request it issues (if any) and how it
\* ends, the storage service answering r
save_image_to_s3(b, url, r) ==
    LET here == "save_image_to_s3"
        p == parse_s3_url(url)
        call == [op |-> "upload_fileobj", Bucket |-> p.bucket, Key |-> p.key]
    IN  IF ~p.ok
        THEN [calls |-> <<>>,
              exc |-> Exc("ImageError", "Error saving image to S3", p.error, here)]
        ELSE IF b # "image"
        THEN [calls |-> <<>>,
              exc |-> Exc("ImageError", "Error saving image to S3",
                          "cannot identify image file", here)]
        ELSE [calls |-> <<call>>,
              exc |-> IF r = "ok" THEN NoExc
                      ELSE IF r = "AccessDenied"
                      THEN Exc("ImageError", "Access denied when saving to", "", here)
                      ELSE IF r = "ClientError"
                      THEN Exc("ImageError", "S3 error when saving", UnderlyingDetail,
                               here)
                      ELSE Exc("ImageError", "Error saving image to S3",
                               UnderlyingDetail, here)]

\* the line main's except clauses print for e
MainMessage(e) ==
    IF e.type = "ClientError" THEN <<"A client error occurred", e.detail>>
    ELSE IF e.type = "ImageError" THEN <<e.msg, e.detail>>
    ELSE <<"An unexpected error occurred", e.msg>>

InitRemove ==
    /\ script = "bg_remove"
    /\ pc = "read"
    /\ \E u \in Urls :
          \/ input_s3_url = u /\ output_s3_url = GoodUrl
          \/ input_s3_url = GoodUrl /\ output_s3_url = u

\* input_image = read_image_from_s3(input_s3_url)
ReadImage ==
    /\ script = "bg_remove"
    /\ pc = "read"
    /\ \E r \in GetOutcomes :
          LET res == read_image_from_s3(input_s3_url, r)
          IN  /\ s3_calls' = s3_calls \o res.calls
              /\ exc' = res.exc
              /\ pc' = IF res.exc = NoExc THEN "invoke" ELSE "except"
    /\ UNCHANGED <<script, output, input_s3_url, output_s3_url, response, exit_code,
                   image_bytes, invokes, written>>
    /\ UNCHANGED videoVars

\* image_bytes = remove_background(model_id=model_id, body=body)
RemoveBackground ==
    /\ script = "bg_remove"
    /\ pc = "invoke"
    /\ \E resp \in Responses :
          LET res == remove_background(resp)
          IN  /\ response' = resp
              /\ invokes' = IF resp.transport = "NoClient" THEN invokes
                            ELSE invokes + 1
              /\ exc' = res.exc
              /\ image_bytes' = res.value
              /\ pc' = IF res.exc = NoExc THEN "save" ELSE "except"
    /\ UNCHANGED <<script, output, input_s3_url, output_s3_url, exit_code, s3_calls,
                   written>>
    /\ UNCHANGED videoVars

\* save_image_to_s3(image_bytes, output_s3_url)
SaveImage ==
    /\ script = "bg_remove"
    /\ pc = "save"
    /\ \E r \in PutOutcomes :
          LET res == save_image_to_s3(image_bytes, output_s3_url, r)
          IN  /\ s3_calls' = s3_calls \o res.calls
              /\ exc' = res.exc
              /\ written' = (res.exc = NoExc)
              /\ pc' = IF res.exc = NoExc THEN "else" ELSE "except"
    /\ UNCHANGED <<script, output, input_s3_url, output_s3_url, response, exit_code,
                   image_bytes, invokes>>
    /\ UNCHANGED videoVars

\* main's except clauses: log, print, sys.exit(1)
MainExcept ==
    /\ script = "bg_remove"
    /\ pc = "except"
    /\ output' = Append(output, MainMessage(exc))
    /\ exit_code' = 1
    /\ pc' = "exited"
    /\ UNCHANGED <<script, input_s3_url, output_s3_url, response, exc, image_bytes,
                   invokes, s3_calls, written>>
    /\ UNCHANGED videoVars

\* main's else clause: return 0, then sys.exit(exit_code)
MainElse ==
    /\ script = "bg_remove"
    /\ pc = "else"
    /\ output' = Append(output, <<"Finished background removal", output_s3_url>>)
    /\ exit_code' = 0
    /\ pc' = "exited"
    /\ UNCHANGED <<script, input_s3_url, output_s3_url, response, exc, image_bytes,
                   invokes, s3_calls, written>>
    /\ UNCHANGED videoVars

-----------------------------------------------------------------------------
(* bedrock_nova_image_bg_change_prompt.py *)

\* generate_image, after invoke_model ended as resp says: nothing is caught
generate_image(resp) ==
    LET here == "generate_image"
        t == resp.transport
    IN  IF t \in {"NoClient", "AccessDeniedException", "ClientError"}
        THEN Raise(Exc("ClientError", t, UnderlyingDetail, here))
        ELSE IF t \in {"KeyError", "Exception"}
        THEN Raise(Exc(t, UnderlyingDetail, UnderlyingDetail, here))
        ELSE IF resp.images = "absent"
        THEN Raise(Exc("TypeError", "'NoneType' object is not subscriptable", "",
                       here))
        ELSE IF resp.images \in {"emptylist", "emptystring"}
        THEN Raise(Exc("IndexError", "index out of range", "", here))
        ELSE IF resp.images = "badpadding"
        THEN Raise(Exc("binascii.Error", "Incorrect padding", "", here))
        ELSE IF resp.error # "null"
        THEN Raise(Exc("ImageError", "Image generation error. Error is", resp.error,
                       here))
        ELSE IF resp.images = "emptyfirst" THEN Return("empty")
        ELSE Return(Decoded(resp.images))

\* how opening image_path ends
OpenOutcomes == {"ok", "FileNotFoundError", "Exception"}

\* how saving and showing the output image ends
WriteOutcomes == {"ok", "SaveFails", "ShowFails"}

\* the line change_background's except clauses log for e
ChangeMessage(e) ==
    IF e.type = "FileNotFoundError" THEN <<"Image file not found", "">>
    ELSE IF e.type = "ClientError" THEN <<"AWS service error", e.detail>>
    ELSE IF e.type = "ImageError" THEN <<e.msg, e.detail>>
    ELSE <<"An error occurred", e.msg>>

ImagePath == <<"p">>
OutputFile == <<"output_background_changed.png">>

InitChange ==
    /\ script = "bg_change"
    /\ pc = "open"
    /\ input_s3_url = ImagePath
    /\ output_s3_url = OutputFile

\* with Image.open(image_path) as img: ... input_image = base64 of its PNG
OpenImage ==
    /\ script = "bg_change"
    /\ pc = "open"
    /\ \E r \in OpenOutcomes :
          /\ exc' = IF r = "ok" THEN NoExc
                    ELSE Exc(r, UnderlyingDetail, UnderlyingDetail, "change_background")
          /\ pc' = IF r = "ok" THEN "invoke" ELSE "except"
    /\ UNCHANGED <<script, output, input_s3_url, output_s3_url, response, exit_code,
                   image_bytes, invokes, s3_calls, written>>
    /\ UNCHANGED videoVars

\* image_bytes = generate_image(model_id=model_id, body=body)
GenerateImage ==
    /\ script = "bg_change"
    /\ pc = "invoke"
    /\ \E resp \in Responses :
          LET res == generate_image(resp)
          IN  /\ response' = resp
              /\ invokes' = IF resp.transport = "NoClient" THEN invokes
                            ELSE invokes + 1
              /\ exc' = res.exc
              /\ image_bytes' = res.value
              /\ pc' = IF res.exc = NoExc THEN "save" ELSE "except"
    /\ UNCHANGED <<script, output, input_s3_url, output_s3_url, exit_code, s3_calls,
                   written>>
    /\ UNCHANGED videoVars

\* output_image = Image.open(...); output_image.save(output_file); .show()
SaveOutput ==
    /\ script = "bg_change"
    /\ pc = "save"
    /\ \E r \in WriteOutcomes :
          LET here == "change_background"
              e == IF image_bytes # "image"
                   THEN Exc("Exception", "cannot identify image file", "", here)
                   ELSE IF r = "ok" THEN NoExc
                   ELSE Exc("Exception", UnderlyingDetail, UnderlyingDetail, here)
          IN  /\ exc' = e
              /\ written' = (image_bytes = "image" /\ r # "SaveFails")
              /\ output' = IF e = NoExc
                           THEN Append(output, <<"Image saved as", output_s3_url>>)
                           ELSE output
              /\ pc' = IF e = NoExc THEN "else" ELSE "except"
    /\ UNCHANGED <<script, input_s3_url, output_s3_url, response, exit_code,
                   image_bytes, invokes, s3_calls>>
    /\ UNCHANGED videoVars

\* change_background's except clauses: logging.error, then the function and
\* main return and the interpreter exits with 0
ChangeExcept ==
    /\ script = "bg_change"
    /\ pc = "except"
    /\ output' = Append(output, ChangeMessage(exc))
    /\ exit_code' = 0
    /\ pc' = "exited"
    /\ UNCHANGED <<script, input_s3_url, output_s3_url, response, exc, image_bytes,
                   invokes, s3_calls, written>>
    /\ UNCHANGED videoVars

\* change_background returns after its try block; the interpreter exits with 0
ChangeReturn ==
    /\ script = "bg_change"
    /\ pc = "else"
    /\ exit_code' = 0
    /\ pc' = "exited"
    /\ UNCHANGED <<script, output, input_s3_url, output_s3_url, response, exc,
                   image_bytes, invokes, s3_calls, written>>
    /\ UNCHANGED videoVars

NoVideoState ==
    /\ invocation_arn = NoArn
    /\ s3_location = <<>>
    /\ status = Unset
    /\ remote = Unset
    /\ polls = 0
    /\ sleeps = 0
    /\ elapsed = 0
    /\ events = <<>>

InitImage ==
    /\ InitRemove \/ InitChange
    /\ NoVideoState
    /\ output = <<>>
    /\ response = NoResponse
    /\ exc = NoExc
    /\ exit_code = Running
    /\ image_bytes = "none"
    /\ invokes = 0
    /\ s3_calls = <<>>
    /\ written = FALSE

NextImage ==
    \/ ReadImage
    \/ RemoveBackground
    \/ SaveImage
    \/ MainExcept
    \/ MainElse
    \/ OpenImage
    \/ GenerateImage
    \/ SaveOutput
    \/ ChangeExcept
    \/ ChangeReturn

SpecImage == InitImage /\ [][NextImage]_vars

-----------------------------------------------------------------------------
(* Claims about bedrock_nova_reel_text2video.py *)

Max(S) == CHOOSE x \in S : \A y \in S : y <= x

\* the answers a status query can give
Answers == {"InProgress", "Completed", "Failed"}

\* the loop has been left through its break
LoopLeft == pc \in {"report", "done"}

\* C1: in the wait loop the polls and the sleeps alternate, starting with a
\* poll; nothing follows a poll that answered a terminal status; so after N-1
\* InProgress answers and a terminal one the loop has made exactly N status
\* queries and N-1 sleeps of SLEEP_TIME seconds, none after the terminal poll
\* (N = 1: one poll, no sleep), and it is left exactly then.
C1_PollsAndSleeps ==
    LET n == Len(events)
        inProgress == Cardinality({i \in 1..n : events[i] = "InProgress"})
    IN  /\ \A i \in 1..n : IF i % 2 = 1 THEN events[i] \in Answers \cup {"error"}
                                        ELSE events[i] = "sleep"
        /\ \A i \in 1..(n - 1) : events[i] \in {"InProgress", "sleep"}
        /\ polls = (n + 1) \div 2
        /\ sleeps = n \div 2
        /\ elapsed = sleeps * SLEEP_TIME
        /\ LoopLeft <=> (n > 0 /\ events[n] \in Terminal)
        /\ LoopLeft => /\ polls = inProgress + 1
                       /\ sleeps = inProgress
                       /\ elapsed = inProgress * SLEEP_TIME

C1_Witness ==
    /\ pc = "done"
    /\ events = <<"InProgress", "sleep", "InProgress", "sleep", "Failed">>
    /\ polls = 3
    /\ sleeps = 2

\* the part of a handle after its last "/" (the whole handle without one)
SuffixAfterLastSlash(arn) ==
    LET slashes == {i \in 1..Len(arn) : arn[i] = "/"}
        last == IF slashes = {} THEN 0 ELSE Max(slashes)
    IN  SubSeq(arn, last + 1, Len(arn))

Submitted == invocation_arn # NoArn

\* C2: once the job is submitted, s3_location is the output prefix followed
\* by the handle's suffix after its last "/"; no later step changes it or the
\* handle; and when the polls answer InProgress, InProgress, Completed the
\* script ends with status Completed and reports the video under s3_location.
C2_OutputLocation ==
    /\ [](Submitted =>
            s3_location = OutputPrefix \o SuffixAfterLastSlash(invocation_arn))
    /\ [][Submitted => /\ s3_location' = s3_location
                       /\ invocation_arn' = invocation_arn]_vars
    /\ []((pc = "done" /\ events = <<"InProgress", "sleep", "InProgress", "sleep",
                                     "Completed">>) =>
            /\ status = "Completed"
            /\ output[Len(output)] =
                 <<"Video is ready at",
                   OutputPrefix \o SuffixAfterLastSlash(invocation_arn)
                     \o <<"/", "output.mp4">> >>)

C2_Witness ==
    /\ pc = "done"
    /\ events = <<"InProgress", "sleep", "InProgress", "sleep", "Completed">>
    /\ invocation_arn = <<"arn", "/", "async-invoke", "/", "j3">>
    /\ s3_location = OutputPrefix \o <<"j3">>

IsReport(line) == line[1] \in {"Video is ready at", "Video generation status"}

\* C9: a status query that fails ends the wait at once: it is the last event
\* (no later query, no sleep, no retry), the script is over, status keeps the
\* value it had before the failed query (never Failed), and neither final
\* message is printed.
C9_PollFailureAborts ==
    (\E i \in 1..Len(events) : events[i] = "error") =>
        /\ events[Len(events)] = "error"
        /\ \A i \in 1..(Len(events) - 1) : events[i] # "error"
        /\ pc = "crashed"
        /\ status = (IF Len(events) = 1 THEN Unset ELSE "InProgress")
        /\ status # "Failed"
        /\ sleeps = polls - 1
        /\ \A i \in 1..Len(output) : ~IsReport(output[i])

C9_Witness ==
    /\ pc = "crashed"
    /\ events = <<"InProgress", "sleep", "error">>
    /\ remote = "Failed"

\* C10: status changes only in a poll; once it is Completed or Failed no
\* further poll is made and it never changes; the loop is left exactly when a
\* poll has reported such a status; a sleep is always followed by the next
\* poll (no attempt cap, no timeout); and when the remote job ends and no
\* request fails, the script ends.
C10_TerminalStatus ==
    /\ [][status' # status => (pc = "poll" /\ polls' = polls + 1)]_vars
    /\ [][(status \in Terminal) => (status' = status /\ polls' = polls)]_vars
    /\ [](LoopLeft <=> status \in Terminal)
    /\ [][(pc = "sleep" /\ pc' # pc) => pc' = "poll"]_vars
    /\ [][events' = Append(events, "InProgress") => pc' = "sleep"]_vars
    /\ <>(pc = "done" \/ pc = "crashed")

C10_Witness ==
    /\ pc = "done"
    /\ status = "Failed"
    /\ polls = MaxPolls + 1
    /\ sleeps = MaxPolls

-----------------------------------------------------------------------------
(* Claims about the image scripts *)

\* the outcomes of section 4.3, as the exceptions the scripts raise for them
IsGenerationError(e) ==
    /\ e.type = "ImageError"
    /\ e.msg \in {"Background removal error. Error is",
                  "Image generation error. Error is"}

IsEmptyResult(e) ==
    /\ e.type = "ImageError"
    /\ e.msg \in {"No processed image returned in the response.",
                  "Error parsing Bedrock response"}

Uploads == {i \in 1..Len(s3_calls) : s3_calls[i].op = "upload_fileobj"}

\* C3: a response with a non-null error field ends the invocation with the
\* generation error carrying that error, whatever its images field holds, and
\* nothing is written.
C3_ErrorFieldWins ==
    (response.transport = "ok" /\ response.error # "null") =>
        /\ IsGenerationError(exc)
        /\ exc.detail = response.error
        /\ ~written
        /\ Uploads = {}

\* C4: in the background-removal script a response without images (no key, an
\* empty list, an empty first element) and with a null error ends the
\* invocation with the empty-result outcome, save_image_to_s3 is not called
\* and the run exits with 1.
C4_EmptyResult ==
    (/\ script = "bg_remove"
     /\ response.transport = "ok"
     /\ response.images \in {"absent", "emptylist", "emptyfirst"}
     /\ response.error = "null") =>
        /\ IsEmptyResult(exc)
        /\ exc.raised_in = "remove_background"
        /\ Uploads = {}
        /\ pc = "exited" => exit_code = 1

\* the errors parse_s3_url raises
InvalidLocatorErrors == {"Invalid S3 URL scheme", "Invalid S3 URL format"}

\* the text starts with the scheme s3 (in either case) and ":"
S3Scheme(url) ==
    Len(url) >= 3 /\ url[1] \in {"s", "S"} /\ url[2] = "3" /\ url[3] = ":"

\* the locators C5 lists, read off the text: empty; no scheme s3; s3 with no
\* "//" or with no container after it; s3://container followed by nothing or
\* by "/" separators only
InvalidLocator(url) ==
    \/ url = <<>>
    \/ ~S3Scheme(url)
    \/ ~(Len(url) >= 5 /\ url[4] = "/" /\ url[5] = "/")
    \/ Len(url) = 5
    \/ url[6] \in {"/", "?", "#"}
    \/ \E j \in 5..Len(url) : /\ \A i \in 6..j : url[i] # "/"
                              /\ \A i \in (j + 1)..Len(url) : url[i] = "/"

\* C5: for a locator that is empty, has no scheme s3, has an empty container
\* or an empty key (also one of "/" only), read_image_from_s3 and
\* save_image_to_s3 fail with parse_s3_url's error and issue no get_object /
\* upload_fileobj request.
C5_InvalidLocator ==
    /\ (script = "bg_remove" /\ InvalidLocator(input_s3_url)) =>
          /\ s3_calls = <<>>
          /\ pc \in {"read", "except", "exited"}
          /\ pc # "read" => /\ exc.type = "ImageError"
                            /\ exc.raised_in = "read_image_from_s3"
                            /\ exc.detail \in InvalidLocatorErrors
    /\ (script = "bg_remove" /\ InvalidLocator(output_s3_url)) =>
          /\ Uploads = {}
          /\ ~written
          /\ pc # "else"
          /\ pc \in {"except", "exited"} /\ image_bytes # "none" =>
                /\ exc.type = "ImageError"
                /\ exc.raised_in = "save_image_to_s3"
                /\ exc.detail \in InvalidLocatorErrors

C5_Witness ==
    /\ script = "bg_remove"
    /\ output_s3_url = <<"s", "3", ":", "/", "/", "b", "/", "/">>
    /\ pc = "exited"
    /\ exc.raised_in = "save_image_to_s3"
    /\ exc.detail = "Invalid S3 URL format"
    /\ Len(s3_calls) = 1

\* the locator of a storage request
Locator(call) == <<"s", "3", ":", "/", "/">> \o call.Bucket \o <<"/">> \o call.Key

\* C6: a locator s3://<container>/<key> that parse_s3_url accepts is
\* reproduced by writing the parsed bucket and key back as s3://bucket/key.
C6_RoundTrip ==
    \A i \in 1..Len(s3_calls) :
        LET url == IF s3_calls[i].op = "get_object" THEN input_s3_url
                   ELSE output_s3_url
        IN  SubSeq(url, 1, 5) = <<"s", "3", ":", "/", "/">> =>
                Locator(s3_calls[i]) = url

\* C7: a run exits with 0 exactly when its pipeline succeeded, and with 1 when
\* a failure was caught at the top level, in both image scripts.
C7_ExitCode ==
    exit_code # Running =>
        /\ exit_code = 0 <=> (exc = NoExc /\ written)
        /\ exc # NoExc => exit_code = 1

\* C8: a transport-level failure of invoke_model reaches the caller as a
\* failure that is neither the generation error nor the empty result, carries
\* the underlying detail message, and follows a single submission.
C8_TransportErrors ==
    response.transport \in {"AccessDeniedException", "ClientError", "KeyError",
                            "Exception"} =>
        /\ exc # NoExc
        /\ ~IsGenerationError(exc)
        /\ ~IsEmptyResult(exc)
        /\ exc.detail = UnderlyingDetail
        /\ invokes = 1

=============================================================================
